---- MODULE Spec2Model ----
(***************************************************************************)
(* Model of src/src/Subscription.ts and src/src/observable/fromArray.ts.    *)
(* Subscription.ts: the composite Subscription with its                    *)
(* unsubscribe / add / remove operations and the UnsubscriptionError that  *)
(* unsubscribe raises.  JavaScript runs each call to completion on one     *)
(* thread, so every client call is one action; the calls a teardown makes  *)
(* re-entrantly are evaluated inside that action and every step of the     *)
(* call is written to the trace of the call.                               *)
(***************************************************************************)
EXTENDS Integers, Sequences, FiniteSets, TLC

\* Bounds of the model.
MaxLen == 3        \* the longest array given to fromArray
MaxCalls == 4          \* calls the client makes in one run
MaxChildren == 2       \* client add() calls are made on lists shorter than this

EMPTY == 0             \* identity of the static Subscription.EMPTY
\* every call constructs at most one object
Ids == 0..MaxCalls

(***************************************************************************)
(* JavaScript values that are passed to add() and remove().                *)
(***************************************************************************)
Val(t, v, s) == [t |-> t, v |-> v, s |-> s]
Undefined == Val("undefined", 0, "")
Null == Val("null", 0, "")
Num(k) == Val("number", k, "")
Str(s) == Val("string", 0, s)
Bool(b) == Val("boolean", IF b THEN 1 ELSE 0, "")
PlainObject == Val("Object", 0, "")
SubV(n) == Val("Subscription", n, "")
FnV(k) == Val("function", k, "")

\* the typeof operator
TypeOf(x) ==
  IF x.t \in {"null", "Object", "Subscription"} THEN "object" ELSE x.t

\* ToBoolean, as used by the ! operator
Truthy(x) ==
  CASE x.t \in {"undefined", "null"} -> FALSE
    [] x.t = "boolean" -> x.v = 1
    [] x.t = "number" -> x.v # 0
    [] x.t = "string" -> x.s # ""
    [] OTHER -> TRUE

(***************************************************************************)
(* Errors.  The value callable k throws when it runs with a given this is  *)
(* Thrown(k, this); unsubscribe throws an UnsubscriptionError that carries *)
(* a list of errors; add throws an Error for an unrecognized argument.     *)
(***************************************************************************)
NoErr == [type |-> "none", fn |-> 0, this |-> 0, errors |-> <<>>]
Thrown(k, this) == [type |-> "thrown", fn |-> k, this |-> this, errors |-> <<>>]
UnsubscriptionError(errors) ==
  [type |-> "UnsubscriptionError", fn |-> 0, this |-> 0, errors |-> errors]
UnrecognizedError == [type |-> "Error", fn |-> 0, this |-> 0, errors |-> <<>>]

InstanceOfUnsubscriptionError(err) == err.type = "UnsubscriptionError"

(***************************************************************************)
(* The callables handed to the constructor and to add().  Callable k does  *)
(* what FnTable[k] says when it is invoked: return, throw, or call back    *)
(* into a Subscription (the exception of that call, if any, propagates).   *)
(***************************************************************************)
Fn(kind, a, b) == [kind |-> kind, a |-> a, b |-> b]
FnTable ==
  << Fn("ok", 0, 0),
     Fn("throw", 0, 0),
     Fn("unsubscribe", 1, 0),
     Fn("add", 1, 2),
     Fn("remove", 1, 2) >>
FnIds == 1..Len(FnTable)
NoFn == 0              \* the _unsubscribe field of a Subscription built without a callable

\* the _subscriptions field: undefined until the first add, an array, or null
UndefinedSubs == [kind |-> "undefined", items |-> <<>>]
NullSubs == [kind |-> "null", items |-> <<>>]
ArraySubs(items) == [kind |-> "array", items |-> items]

VARIABLES
  isUnsubscribed,   \* the isUnsubscribed field of every object
  _unsubscribe,     \* the callable given to the constructor, NoFn without one
  _subscriptions,   \* the _subscriptions field of every object
  alloc,            \* objects constructed so far: 1..alloc
  wrappers,         \* the objects add() constructed around a callable
  invoked,          \* how often the callable of each object has been invoked
  calls,            \* calls the client has made
  last,             \* the record of the call the client has just made
  array,            \* the array field of the ArrayObservable
  loopI,            \* the loop index i of subscriber
  loopLen,          \* len, the length subscriber read when the loop started
  disposed,         \* the disposed field of the observer
  received,         \* what the observer has been sent, in order
  pc                \* where subscriber is
arrayVars == <<array, loopI, loopLen, disposed, received, pc>>
subscriptionVars == <<isUnsubscribed, _unsubscribe, _subscriptions, alloc,
                      wrappers, invoked, calls, last>>
vars == <<isUnsubscribed, _unsubscribe, _subscriptions, alloc, wrappers,
          invoked, calls, last, arrayVars>>

\* the heap as one value, threaded through the calls
Heap == [isUnsubscribed |-> isUnsubscribed, _unsubscribe |-> _unsubscribe,
         _subscriptions |-> _subscriptions, alloc |-> alloc,
         wrappers |-> wrappers, depth |-> 0, trace |-> <<>>]

Snap(st) == [isUnsubscribed |-> st.isUnsubscribed,
             _subscriptions |-> st._subscriptions]

\* one step of a call: what happens, at which call depth, the error it ends
\* with, and the heap as it is at that step
LogE(st, ev, node, arg, flag, err) ==
  [st EXCEPT !.trace = Append(@, [ev |-> ev, node |-> node, arg |-> arg,
                                  flag |-> flag, err |-> err,
                                  depth |-> st.depth, heap |-> Snap(st)])]
Log(st, ev, node, arg, flag) == LogE(st, ev, node, arg, flag, NoErr)
Enter(st) == [st EXCEPT !.depth = @ + 1]
Leave(st) == [st EXCEPT !.depth = @ - 1]

Ret(st, thrown) == [st |-> st, thrown |-> thrown]

(***************************************************************************)
(* Utilities imported by Subscription.ts.                                  *)
(***************************************************************************)
isFunction(f) == f # NoFn
isArray(a) == a.kind = "array"
isObject(sub) == sub \in Ids
\* tryCatch(fn).call(..): a thrown exception becomes the returned errorObject
\* and errorObject.e holds the exception
tryCatch(r) ==
  [st |-> r.st,
   trial |-> IF r.thrown # NoErr THEN "errorObject" ELSE "undefined",
   e |-> r.thrown]

(***************************************************************************)
(* Subscription.unsubscribe                                                *)
(***************************************************************************)
\* mutant: the early return is never taken
AlreadyUnsubscribed_Never(st, this) == FALSE

\* line 48: the guard of the early return
AlreadyUnsubscribed(st, this) == st.isUnsubscribed[this]

\* mutant: the flag is set and the list stays on the object
Detach_KeepList(st, this) == [st EXCEPT !.isUnsubscribed[this] = TRUE]

\* lines 52-56: set the flag and take the list off the object
Detach(st, this) ==
  [st EXCEPT !.isUnsubscribed[this] = TRUE, !._subscriptions[this] = NullSubs]

\* line 62: (errors = errors || []).push(errorObject.e)
PushOwnError(errors, e) == Append(errors, e)

\* mutant: the error of a child is pushed as it is
CollectChildError_Nested(errors, err) == Append(errors, err)

\* lines 77-83: the error of a child's unsubscribe joins the list
CollectChildError(errors, err) ==
  IF InstanceOfUnsubscriptionError(err)
    THEN errors \o err.errors
    ELSE Append(errors, err)

\* lines 89-91
Outcome(st, hasErrors, errors) ==
  IF hasErrors THEN Ret(st, UnsubscriptionError(errors)) ELSE Ret(st, NoErr)

\* mutant: lastIndexOf
IndexOf_Last(items, x) ==
  IF \E i \in 1..Len(items) : items[i] = x
    THEN CHOOSE i \in 1..Len(items) :
           items[i] = x /\ \A j \in (i + 1)..Len(items) : items[j] # x
    ELSE 0

\* lines 136-143: indexOf and splice of the first occurrence
IndexOf(items, x) ==
  IF \E i \in 1..Len(items) : items[i] = x
    THEN CHOOSE i \in 1..Len(items) :
           items[i] = x /\ \A j \in 1..(i - 1) : items[j] # x
    ELSE 0
Splice(items, i) ==
  SubSeq(items, 1, i - 1) \o SubSeq(items, i + 1, Len(items))

\* mutant: add does not compare its argument with this
AddReturnsEarly_NoSelf(this, subscription) ==
  \/ ~Truthy(subscription)
  \/ subscription = SubV(EMPTY)

\* mutant: add compares its argument with null as remove does
AddReturnsEarly_NullOnly(this, subscription) ==
  \/ subscription.t \in {"null", "undefined"}
  \/ subscription = SubV(this)
  \/ subscription = SubV(EMPTY)

\* lines 99-101 and 130-132: the arguments add and remove return early on
AddReturnsEarly(this, subscription) ==
  \/ ~Truthy(subscription)
  \/ subscription = SubV(this)
  \/ subscription = SubV(EMPTY)
RemoveReturnsEarly(this, subscription) ==
  \/ subscription.t \in {"null", "undefined"}
  \/ subscription = SubV(this)
  \/ subscription = SubV(EMPTY)

\* Subscription.remove
remove(st, this, subscription) ==
  IF RemoveReturnsEarly(this, subscription) THEN st
  ELSE LET subscriptions == st._subscriptions[this]
           x == IF subscription.t = "Subscription" THEN subscription.v ELSE -1
           subscriptionIndex == IndexOf(subscriptions.items, x)
       IN IF subscriptions.kind = "array" /\ subscriptionIndex # 0
            THEN [st EXCEPT !._subscriptions[this] =
                    ArraySubs(Splice(subscriptions.items, subscriptionIndex))]
            ELSE st

\* mutant: a new object starts with the flag set
Construct_Unsubscribed(st, fn) ==
  [st EXCEPT !.alloc = @ + 1,
             !.isUnsubscribed[st.alloc + 1] = TRUE,
             !._unsubscribe[st.alloc + 1] = fn,
             !._subscriptions[st.alloc + 1] = UndefinedSubs]

\* mutant: the constructor drops the callable
Construct_NoCallable(st, fn) ==
  [st EXCEPT !.alloc = @ + 1,
             !.isUnsubscribed[st.alloc + 1] = FALSE,
             !._unsubscribe[st.alloc + 1] = NoFn,
             !._subscriptions[st.alloc + 1] = UndefinedSubs]

\* the constructor: a new object, with _unsubscribe set when a callable is given
Construct(st, fn) ==
  [st EXCEPT !.alloc = @ + 1,
             !.isUnsubscribed[st.alloc + 1] = FALSE,
             !._unsubscribe[st.alloc + 1] = fn,
             !._subscriptions[st.alloc + 1] = UndefinedSubs]

\* line 116: (this._subscriptions || (this._subscriptions = [])).push(sub)
Push(st, this, sub) ==
  [st EXCEPT !._subscriptions[this] = ArraySubs(Append(@.items, sub))]

\* mutant: the isUnsubscribed flag of the argument is not looked at
Inert_IgnoreFlag(st, sub) == sub.t # "Subscription"

\* line 111: sub.isUnsubscribed || typeof sub.unsubscribe !== 'function'
Inert(st, sub) ==
  \/ sub.t # "Subscription"
  \/ st.isUnsubscribed[sub.v]

\* mutant: the isUnsubscribed flag of the receiver is not looked at
AddBranch_AlwaysPush(st, this, sub) ==
  IF Inert(st, sub) THEN "break" ELSE "push"

\* mutant: an object added to an unsubscribed receiver is dropped
AddBranch_Drop(st, this, sub) ==
  IF Inert(st, sub) \/ st.isUnsubscribed[this] THEN "break" ELSE "push"

\* lines 111-117: what add does with an object
AddBranch(st, this, sub) ==
  IF Inert(st, sub) THEN "break"
  ELSE IF st.isUnsubscribed[this] THEN "unsubscribe"
  ELSE "push"

\* mutant: add catches what sub.unsubscribe() throws
Uncaught_Swallowed(r) == Ret(r.st, NoErr)

\* line 114: sub.unsubscribe() is not in a try block, what it throws leaves add
Uncaught(r) == r

RECURSIVE unsubscribe(_, _)
RECURSIVE add(_, _, _)
RECURSIVE Invoke(_, _, _)
RECURSIVE unsubscribeChildren(_, _, _, _, _)

\* the body of callable k, run with the given this
Invoke(st, k, this) ==
  LET f == FnTable[k]
      s1 == Log(st, "teardown", this, k, TRUE)
      r == CASE f.kind = "ok" -> Ret(s1, NoErr)
             [] f.kind = "throw" -> Ret(s1, Thrown(k, this))
             [] f.kind = "unsubscribe" -> unsubscribe(s1, f.a)
             [] f.kind = "add" -> add(s1, f.a, SubV(f.b))
             [] f.kind = "remove" -> Ret(remove(s1, f.a, SubV(f.b)), NoErr)
  IN Ret(LogE(r.st, "teardownReturn", this, k, r.thrown # NoErr, r.thrown),
         r.thrown)

\* mutant: the loop runs from the last child to the first
unsubscribeChildren_Backwards(st, this, subs, index, acc) ==
  IF index > Len(subs) THEN [st |-> st, hasErrors |-> acc.hasErrors,
                             errors |-> acc.errors]
  ELSE LET sub == subs[Len(subs) - index + 1]
           t == tryCatch(unsubscribe(Log(st, "child", this, sub, TRUE), sub))
       IN IF t.trial = "errorObject"
            THEN unsubscribeChildren(t.st, this, subs, index + 1,
                   [hasErrors |-> TRUE,
                    errors |-> CollectChildError(acc.errors, t.e)])
            ELSE unsubscribeChildren(t.st, this, subs, index + 1, acc)

\* mutant: no tryCatch around the child's unsubscribe, its error ends the loop
unsubscribeChildren_Abort(st, this, subs, index, acc) ==
  IF index > Len(subs) THEN [st |-> st, hasErrors |-> acc.hasErrors,
                             errors |-> acc.errors]
  ELSE LET r == unsubscribe(Log(st, "child", this, subs[index], TRUE), subs[index])
       IN IF r.thrown # NoErr
            THEN [st |-> r.st, hasErrors |-> TRUE,
                  errors |-> CollectChildError(acc.errors, r.thrown)]
            ELSE unsubscribeChildren(r.st, this, subs, index + 1, acc)

\* lines 68-86: the loop over the detached list, index counted from 1
unsubscribeChildren(st, this, subs, index, acc) ==
  IF index > Len(subs) THEN [st |-> st, hasErrors |-> acc.hasErrors,
                             errors |-> acc.errors]
  ELSE LET sub == subs[index] IN
       IF isObject(sub)
         THEN LET t == tryCatch(unsubscribe(Log(st, "child", this, sub, TRUE), sub))
              IN IF t.trial = "errorObject"
                   THEN unsubscribeChildren(t.st, this, subs, index + 1,
                          [hasErrors |-> TRUE,
                           errors |-> CollectChildError(acc.errors, t.e)])
                   ELSE unsubscribeChildren(t.st, this, subs, index + 1, acc)
         ELSE unsubscribeChildren(st, this, subs, index + 1, acc)

unsubscribe(st, this) ==
  LET s0 == Log(Enter(st), "unsubscribe", this, 0, ~st.isUnsubscribed[this]) IN
  IF AlreadyUnsubscribed(st, this)
    THEN Ret(Leave(Log(s0, "return", this, 0, FALSE)), NoErr)
    ELSE
      LET fn == st._unsubscribe[this]
          subs == st._subscriptions[this]
          s1 == Detach(s0, this)
          own == IF isFunction(fn)
                   THEN tryCatch(Invoke(s1, fn, this))
                   ELSE tryCatch(Ret(s1, NoErr))
          acc1 == IF own.trial = "errorObject"
                    THEN [hasErrors |-> TRUE, errors |-> PushOwnError(<<>>, own.e)]
                    ELSE [hasErrors |-> FALSE, errors |-> <<>>]
          res == IF isArray(subs)
                   THEN unsubscribeChildren(own.st, this, subs.items, 1, acc1)
                   ELSE [st |-> own.st, hasErrors |-> acc1.hasErrors,
                         errors |-> acc1.errors]
          out == Outcome(res.st, res.hasErrors, res.errors)
      IN Ret(Leave(LogE(out.st, "return", this, 0, res.hasErrors, out.thrown)),
             out.thrown)

\* Subscription.add
add(st, this, subscription) ==
  IF AddReturnsEarly(this, subscription) THEN Ret(st, NoErr)
  ELSE
    LET isFn == TypeOf(subscription) = "function"
        s1 == IF isFn THEN Construct(st, subscription.v) ELSE st
        s2 == IF isFn THEN [s1 EXCEPT !.wrappers = @ \cup {s1.alloc}] ELSE s1
        sub == IF isFn THEN SubV(s2.alloc) ELSE subscription
    IN IF TypeOf(subscription) \notin {"function", "object"}
         THEN Ret(st, UnrecognizedError)
       ELSE CASE AddBranch(s2, this, sub) = "break" -> Ret(s2, NoErr)
              [] AddBranch(s2, this, sub) = "unsubscribe" ->
                   Uncaught(unsubscribe(s2, sub.v))
              [] AddBranch(s2, this, sub) = "push" -> Ret(Push(s2, this, sub.v), NoErr)

(***************************************************************************)
(* fromArray.ts: ArrayObservable.subscriber sends the elements of its array *)
(* to an observer and then the completion.  The observer is not part of    *)
(* the file: its next() records the element and may set the observer's     *)
(* disposed field, its return() records the completion.                    *)
(***************************************************************************)
\* the sequences over S of length up to n
RECURSIVE SeqsUpTo(_, _)
SeqsUpTo(S, n) ==
  IF n = 0 THEN {<<>>}
  ELSE SeqsUpTo(S, n - 1) \cup
       {Append(q, x) : q \in SeqsUpTo(S, n - 1), x \in S}

Elements == {1, 2}
ArrayOf(items) == [kind |-> "array", items |-> items]
NotAnArray == {[kind |-> "null", items |-> <<>>],
               [kind |-> "undefined", items |-> <<>>]}
\* the arguments of fromArray: arrays of up to MaxLen elements, null, undefined
ArrayInputs == {ArrayOf(q) : q \in SeqsUpTo(Elements, MaxLen)} \cup NotAnArray

\* no subscriber is running: the state of the array variables in the
\* specifications of Subscription
NoSubscriber ==
  /\ array = [kind |-> "undefined", items |-> <<>>]
  /\ loopI = 0 /\ loopLen = 0
  /\ disposed = FALSE
  /\ received = <<>>
  /\ pc = "none"

\* mutant: the loop does not look at observer.disposed
LoopContinues_IgnoreDisposed == loopI < loopLen

\* line 16: i < len && !observer.disposed
LoopContinues == loopI < loopLen /\ ~disposed

\* lines 13-16: subscriber starts; with an array it sets up the loop
subscriber ==
  /\ pc = "start"
  /\ IF array.kind = "array"
       THEN loopI' = 0 /\ loopLen' = Len(array.items) /\ pc' = "loop"
       ELSE pc' = "return" /\ UNCHANGED <<loopI, loopLen>>
  /\ UNCHANGED <<array, disposed, received, subscriptionVars>>

\* lines 16-17: observer.next(array[i]); i++.  The element is array.items[i+1]
\* in the 1-based sequence; the observer may dispose itself in next().
ObserverNext ==
  /\ pc = "loop"
  /\ LoopContinues
  /\ \E d \in BOOLEAN :
       /\ disposed' = (disposed \/ d)
       /\ received' = Append(received, [kind |-> "next",
                                        value |-> array.items[loopI + 1],
                                        disposed |-> (disposed \/ d)])
  /\ loopI' = loopI + 1
  /\ UNCHANGED <<array, loopLen, pc, subscriptionVars>>

\* line 16: the loop ends
LoopEnds ==
  /\ pc = "loop"
  /\ ~LoopContinues
  /\ pc' = "return"
  /\ UNCHANGED <<array, loopI, loopLen, disposed, received, subscriptionVars>>

\* line 20: observer.return()
ObserverReturn ==
  /\ pc = "return"
  /\ received' = Append(received, [kind |-> "return", value |-> 0,
                                   disposed |-> disposed])
  /\ pc' = "done"
  /\ UNCHANGED <<array, loopI, loopLen, disposed, subscriptionVars>>

(***************************************************************************)
(* The client: it holds EMPTY and the objects it constructed (never the    *)
(* wrappers add() builds around a callable).  It makes one call at a time: *)
(* the call runs to completion and leaves its record in last, and the      *)
(* client goes on to its next call with Continue.                          *)
(***************************************************************************)
ClientRefs == (0..alloc) \ wrappers

\* the objects a callable refers to exist when the callable is written
Admissible(k, refs) ==
  IF k = NoFn THEN TRUE
  ELSE FnTable[k].a \in refs \cup {0} /\ FnTable[k].b \in refs \cup {0}

SimpleFns == {k \in FnIds : FnTable[k].kind \in {"ok", "throw"}}
\* callables the client gives to the constructor and to add in Spec
CtorFns == {k \in FnIds : FnTable[k].kind \in {"ok", "throw", "unsubscribe"}}
AddFns == {k \in FnIds : FnTable[k].kind \in {"ok", "throw", "add", "remove"}}
Primitives ==
  {Undefined, Null, Num(0), Num(42), Str(""), Str("abc"), Bool(FALSE), Bool(TRUE)}

\* arguments of add and remove in Spec: constructed objects and callables
AddItems ==
  {SubV(n) : n \in ClientRefs \ {EMPTY}}
    \cup {FnV(k) : k \in {j \in AddFns : Admissible(j, ClientRefs)}}
RemoveItems == {SubV(n) : n \in ClientRefs \ {EMPTY}}

\* arguments of add and remove in SpecArgs: values of every type
AnyItems ==
  Primitives \cup {PlainObject} \cup {SubV(n) : n \in ClientRefs}
    \cup {FnV(k) : k \in SimpleFns}

Idle == [op |-> "none", this |-> 0, item |-> Undefined, thrown |-> NoErr,
         trace |-> <<>>,
         pre |-> [isUnsubscribed |-> [n \in Ids |-> n = EMPTY],
                  _subscriptions |-> [n \in Ids |-> UndefinedSubs]],
         preAlloc |-> 0]

\* invocations of the callable of object n in a trace
Invocations(trace, n) ==
  Cardinality({i \in 1..Len(trace) :
                 trace[i].ev = "teardown" /\ trace[i].node = n})

Called(op, this, item, r) ==
  /\ last = Idle
  /\ calls < MaxCalls
  /\ calls' = calls + 1
  /\ invoked' = [n \in Ids |-> invoked[n] + Invocations(r.st.trace, n)]
  /\ isUnsubscribed' = r.st.isUnsubscribed
  /\ _unsubscribe' = r.st._unsubscribe
  /\ _subscriptions' = r.st._subscriptions
  /\ alloc' = r.st.alloc
  /\ wrappers' = r.st.wrappers
  /\ last' = [op |-> op, this |-> this, item |-> item, thrown |-> r.thrown,
              trace |-> r.st.trace, pre |-> Snap(Heap), preAlloc |-> alloc]
  /\ UNCHANGED arrayVars

Init ==
  /\ calls = 0
  /\ isUnsubscribed = [n \in Ids |-> n = EMPTY]
  /\ _unsubscribe = [n \in Ids |-> NoFn]
  /\ _subscriptions = [n \in Ids |-> UndefinedSubs]
  /\ alloc = 0
  /\ wrappers = {}
  /\ invoked = [n \in Ids |-> 0]
  /\ last = Idle
  /\ NoSubscriber

\* new Subscription(fn) / new Subscription()
New(fn) ==
  /\ Admissible(fn, ClientRefs \cup {alloc + 1})
  /\ Called("new", alloc + 1, IF fn = NoFn THEN Undefined ELSE FnV(fn),
            Ret(Construct(Heap, fn), NoErr))

\* this.add(item)
Add(this, item) ==
  /\ Len(_subscriptions[this].items) < MaxChildren
  /\ Called("add", this, item, add(Heap, this, item))

\* this.remove(item)
Remove(this, item) ==
  Called("remove", this, item, Ret(remove(Heap, this, item), NoErr))

\* this.unsubscribe()
Unsubscribe(this) ==
  Called("unsubscribe", this, Undefined, unsubscribe(Heap, this))

\* the client has the outcome of its call and goes on
Continue ==
  /\ last # Idle
  /\ last' = Idle
  /\ UNCHANGED <<isUnsubscribed, _unsubscribe, _subscriptions, alloc, wrappers,
                 invoked, calls, arrayVars>>

Next ==
  \/ \E fn \in CtorFns \cup {NoFn} : New(fn)
  \/ \E this \in ClientRefs : \E item \in AddItems \ {SubV(this)} : Add(this, item)
  \/ \E this \in ClientRefs : \E item \in RemoveItems \ {SubV(this)} : Remove(this, item)
  \/ \E this \in ClientRefs : Unsubscribe(this)
  \/ Continue

Spec == Init /\ [][Next]_vars

NextArgs ==
  \/ \E fn \in SimpleFns \cup {NoFn} : New(fn)
  \/ \E this \in ClientRefs : \E item \in AnyItems : Add(this, item)
  \/ \E this \in ClientRefs : \E item \in AnyItems : Remove(this, item)
  \/ \E this \in ClientRefs : Unsubscribe(this)
  \/ Continue

SpecArgs == Init /\ [][NextArgs]_vars

\* The client has constructed three objects without a callable and added
\* objects 2 and 3 to object 1 in some order, some of them repeatedly.
InitRemove ==
  /\ calls = 0
  /\ isUnsubscribed = [n \in Ids |-> n = EMPTY]
  /\ _unsubscribe = [n \in Ids |-> NoFn]
  /\ \E q \in SeqsUpTo({2, 3}, MaxChildren + 1) :
       _subscriptions = [n \in Ids |->
          IF n = 1 /\ q # <<>> THEN ArraySubs(q) ELSE UndefinedSubs]
  /\ alloc = 3
  /\ wrappers = {}
  /\ invoked = [n \in Ids |-> 0]
  /\ last = Idle
  /\ NoSubscriber

NextRemove ==
  \/ \E this \in ClientRefs : \E item \in RemoveItems : Add(this, item)
  \/ \E this \in ClientRefs : \E item \in AnyItems : Remove(this, item)
  \/ Continue

SpecRemove == InitRemove /\ [][NextRemove]_vars

\* The client has constructed three objects, each with or without a callable,
\* and added objects 2 and 3 to object 1 and object 1 or 3 to object 2: an
\* object may be listed twice, held by two parents, or be its parent's parent.
\* A callable refers to objects constructed before its own.  The client goes
\* on with two more calls.
TreeObjects == 3

InitTree ==
  /\ calls = MaxCalls - 2
  /\ isUnsubscribed = [n \in Ids |-> n = EMPTY]
  /\ \E f \in [1..TreeObjects -> FnIds \cup {NoFn}] :
       /\ \A n \in 1..TreeObjects : Admissible(f[n], 1..(n - 1))
       /\ _unsubscribe = [n \in Ids |-> IF n \in 1..TreeObjects THEN f[n] ELSE NoFn]
  /\ \E q1 \in SeqsUpTo({2, 3}, MaxChildren) : \E q2 \in SeqsUpTo({1, 3}, 1) :
       _subscriptions = [n \in Ids |->
          IF n = 1 /\ q1 # <<>> THEN ArraySubs(q1)
          ELSE IF n = 2 /\ q2 # <<>> THEN ArraySubs(q2)
          ELSE UndefinedSubs]
  /\ alloc = TreeObjects
  /\ wrappers = {}
  /\ invoked = [n \in Ids |-> 0]
  /\ last = Idle
  /\ NoSubscriber

NextTree ==
  \/ \E this \in ClientRefs : \E item \in RemoveItems : Add(this, item)
  \/ \E this \in ClientRefs : Unsubscribe(this)
  \/ Continue

SpecTree == InitTree /\ [][NextTree]_vars

\* fromArray(a) for an argument a, subscribed by an observer that is
\* disposed already or not; no Subscription is involved
InitArray ==
  /\ calls = 0
  /\ isUnsubscribed = [n \in Ids |-> n = EMPTY]
  /\ _unsubscribe = [n \in Ids |-> NoFn]
  /\ _subscriptions = [n \in Ids |-> UndefinedSubs]
  /\ alloc = 0
  /\ wrappers = {}
  /\ invoked = [n \in Ids |-> 0]
  /\ last = Idle
  /\ array \in ArrayInputs
  /\ loopI = 0 /\ loopLen = 0
  /\ disposed \in BOOLEAN
  /\ received = <<>>
  /\ pc = "start"

NextArray ==
  \/ subscriber
  \/ ObserverNext
  \/ LoopEnds
  \/ ObserverReturn

SpecArray == InitArray /\ [][NextArray]_vars

(***************************************************************************)
(* Properties.  They are stated on the record of the call just made: the   *)
(* heap before it (last.pre), its trace, what it threw, and the heap now.  *)
(***************************************************************************)
Unchanged ==
  /\ Snap(Heap) = last.pre
  /\ alloc = last.preAlloc

PreList(n) == last.pre._subscriptions[n].items

UnsubscribedActive ==
  last.op = "unsubscribe" /\ ~last.pre.isUnsubscribed[last.this]

IsTeardown(e) == e.ev = "teardown"
IsChildCall(e) == e.ev = "child" /\ e.depth = 1
IsOwnFailure(e) == e.ev = "teardownReturn" /\ e.depth = 1 /\ e.flag
IsFailedTeardown(e) == e.ev = "teardownReturn" /\ e.flag

\* the objects the loop of the outermost unsubscribe called, in order
RECURSIVE Args(_)
Args(events) ==
  IF events = <<>> THEN <<>> ELSE <<Head(events).arg>> \o Args(Tail(events))
ChildCalls == Args(SelectSeq(last.trace, IsChildCall))

\* C1: unsubscribe() on an object that is already unsubscribed invokes no
\* callable, leaves every object as it was and throws nothing, also when the
\* first unsubscribe() threw.
C1_SecondUnsubscribeNoOp ==
  (last.op = "unsubscribe" /\ last.pre.isUnsubscribed[last.this]) =>
    /\ last.thrown = NoErr
    /\ Unchanged
    /\ SelectSeq(last.trace, IsTeardown) = <<>>

C1_Witness ==
  /\ last.op = "unsubscribe"
  /\ last.pre.isUnsubscribed[last.this]
  /\ _unsubscribe[last.this] # NoFn
  /\ FnTable[_unsubscribe[last.this]].kind = "throw"
  /\ invoked[last.this] = 1

\* C2: unsubscribe() on an active object calls unsubscribe() on every child
\* of its list, in order, whatever failed before, and every child is
\* unsubscribed afterwards, whether the call threw or not.
C2_EveryChildUnsubscribed ==
  UnsubscribedActive =>
    /\ ChildCalls = PreList(last.this)
    /\ \A i \in 1..Len(PreList(last.this)) :
         isUnsubscribed[PreList(last.this)[i]]

C2_Witness ==
  /\ UnsubscribedActive
  /\ Len(PreList(last.this)) = 2
  /\ last.thrown # NoErr
  /\ \E i \in 1..Len(last.thrown.errors) :
       last.thrown.errors[i].this = PreList(last.this)[1]
  /\ isUnsubscribed[PreList(last.this)[2]]
  /\ invoked[PreList(last.this)[2]] = 1

\* the errors the children reported to the loop of the outermost unsubscribe:
\* the returns at depth 2 after the first call of the loop
FirstChildCall ==
  IF \E i \in 1..Len(last.trace) : IsChildCall(last.trace[i])
    THEN CHOOSE i \in 1..Len(last.trace) :
           /\ IsChildCall(last.trace[i])
           /\ \A j \in 1..(i - 1) : ~IsChildCall(last.trace[j])
    ELSE Len(last.trace) + 1
IsChildReturn(e) == e.ev = "return" /\ e.depth = 2
ChildReturns ==
  SelectSeq(SubSeq(last.trace, FirstChildCall, Len(last.trace)), IsChildReturn)
RECURSIVE Flattened(_)
Flattened(events) ==
  IF events = <<>> THEN <<>>
  ELSE (IF Head(events).err.type = "UnsubscriptionError"
          THEN Head(events).err.errors
          ELSE IF Head(events).err = NoErr THEN <<>> ELSE <<Head(events).err>>)
       \o Flattened(Tail(events))
RECURSIVE Errs(_)
Errs(events) ==
  IF events = <<>> THEN <<>> ELSE <<Head(events).err>> \o Errs(Tail(events))
ExpectedErrors ==
  Errs(SelectSeq(last.trace, IsOwnFailure)) \o Flattened(ChildReturns)

\* C3: unsubscribe() on an active object throws an UnsubscriptionError exactly
\* when a callable run during the call failed, and the error list is the
\* failure of the object's own callable first, then what each child reported,
\* in list order, an UnsubscriptionError of a child replaced by its errors.
C3_ErrorList ==
  UnsubscribedActive =>
    /\ (last.thrown # NoErr) <=>
         (SelectSeq(last.trace, IsFailedTeardown) # <<>>)
    /\ last.thrown =
         IF ExpectedErrors = <<>> THEN NoErr
         ELSE UnsubscriptionError(ExpectedErrors)

C3_Witness ==
  /\ UnsubscribedActive
  /\ SelectSeq(last.trace, IsOwnFailure) # <<>>
  /\ Len(ChildReturns) = 2
  /\ \A i \in 1..2 : ChildReturns[i].err.type = "UnsubscriptionError"
  /\ Len(last.thrown.errors) = 3
  /\ last.thrown.errors[1].this = last.this
  /\ \A i \in 1..2 : last.thrown.errors[i + 1].this = PreList(last.this)[i]

\* C4: no error in the list of an UnsubscriptionError thrown by unsubscribe()
\* is itself an UnsubscriptionError.
C4_NeverNested ==
  last.op = "unsubscribe" =>
    \A i \in 1..Len(last.thrown.errors) :
      last.thrown.errors[i].type # "UnsubscriptionError"

NoChildren(heap, n) == heap.isUnsubscribed[n] => heap._subscriptions[n].items = <<>>

\* C5: an unsubscribed object has no children, now and at every step of the
\* call just made (the steps re-entrant calls of callables see).
C5_UnsubscribedHasNoChildren ==
  /\ \A n \in Ids : NoChildren(Snap(Heap), n)
  /\ \A i \in 1..Len(last.trace) : \A n \in Ids : NoChildren(last.trace[i].heap, n)

C5_Witness ==
  \E i \in 1..Len(last.trace) :
    /\ last.trace[i].ev = "teardown"
    /\ FnTable[last.trace[i].arg].kind = "add"
    /\ last.trace[i].heap.isUnsubscribed[FnTable[last.trace[i].arg].a]
    /\ last.pre._subscriptions[FnTable[last.trace[i].arg].a].items # <<>>
    /\ ~last.trace[i].heap.isUnsubscribed[FnTable[last.trace[i].arg].b]
    /\ isUnsubscribed[FnTable[last.trace[i].arg].b]

\* the object add() works on: its argument, or the wrapper it constructs
AddedObject == IF last.item.t = "function" THEN last.preAlloc + 1 ELSE last.item.v
AddToUnsubscribed ==
  /\ last.op = "add"
  /\ last.pre.isUnsubscribed[last.this]
  /\ \/ last.item.t = "function"
     \/ last.item.t = "Subscription" /\ ~last.pre.isUnsubscribed[last.item.v]

\* C6: add() of an active object or a callable to an unsubscribed receiver
\* calls the object's unsubscribe() (which invokes its callable) within the
\* call of add, and afterwards the object is unsubscribed and not in the
\* receiver's list.
C6_AddToUnsubscribedCancels ==
  AddToUnsubscribed =>
    /\ \E i \in 1..Len(last.trace) :
         /\ last.trace[i].ev = "unsubscribe"
         /\ last.trace[i].node = AddedObject
         /\ last.trace[i].depth = 1
         /\ last.trace[i].flag
    /\ _unsubscribe[AddedObject] # NoFn =>
         Invocations(last.trace, AddedObject) = 1
    /\ isUnsubscribed[AddedObject]
    /\ _subscriptions[last.this] = last.pre._subscriptions[last.this]
    /\ _subscriptions[last.this].items = <<>>

C6_Witness ==
  /\ AddToUnsubscribed
  /\ last.this # EMPTY
  /\ last.item.t = "Subscription"
  /\ _unsubscribe[last.item.v] # NoFn
  /\ invoked[last.item.v] = 1
  /\ isUnsubscribed[last.item.v]

\* C7: add(null), add(this) and add(EMPTY) change nothing, invoke nothing
\* and throw nothing, on an active and on an unsubscribed receiver.
C7_AddNoOp ==
  (last.op = "add" /\ last.item \in {Null, SubV(last.this), SubV(EMPTY)}) =>
    /\ Unchanged
    /\ last.trace = <<>>
    /\ last.thrown = NoErr

C7_Witness ==
  /\ last.op = "add"
  /\ last.item = SubV(last.this)
  /\ last.this # EMPTY
  /\ ~isUnsubscribed[last.this]
  /\ _subscriptions[last.this].items # <<>>

\* C8: the callable of a wrapper that add(callable) put in the list of an
\* active object is invoked exactly once when that object is unsubscribed,
\* and never a second time.
C8_CallableOnce ==
  /\ \A w \in wrappers : invoked[w] <= 1
  /\ UnsubscribedActive =>
       \A i \in 1..Len(PreList(last.this)) :
         PreList(last.this)[i] \in wrappers =>
           /\ Invocations(last.trace, PreList(last.this)[i]) = 1
           /\ invoked[PreList(last.this)[i]] = 1

C8_Witness ==
  /\ UnsubscribedActive
  /\ Len(PreList(last.this)) = 2
  /\ \A i \in 1..2 : PreList(last.this)[i] \in wrappers
  /\ \A i \in 1..2 : invoked[PreList(last.this)[i]] = 1

\* a list without the first occurrence of x
RECURSIVE WithoutFirst(_, _)
WithoutFirst(q, x) ==
  IF q = <<>> THEN <<>>
  ELSE IF Head(q) = x THEN Tail(q)
  ELSE <<Head(q)>> \o WithoutFirst(Tail(q), x)
Occurs(q, x) == \E i \in 1..Len(q) : q[i] = x

\* C9: remove(x) takes the first occurrence of x out of the receiver's list
\* and leaves the rest in order; without an occurrence, or with null, this or
\* EMPTY, nothing changes; remove never throws, unsubscribes nothing, invokes
\* nothing and leaves the lists of the other objects alone.
C9_RemoveFirstOccurrence ==
  last.op = "remove" =>
    /\ last.thrown = NoErr
    /\ last.trace = <<>>
    /\ isUnsubscribed = last.pre.isUnsubscribed
    /\ alloc = last.preAlloc
    /\ \A n \in Ids \ {last.this} : _subscriptions[n] = last.pre._subscriptions[n]
    /\ IF /\ last.item.t = "Subscription"
          /\ last.item.v \notin {last.this, EMPTY}
          /\ Occurs(PreList(last.this), last.item.v)
         THEN _subscriptions[last.this] =
                ArraySubs(WithoutFirst(PreList(last.this), last.item.v))
         ELSE _subscriptions[last.this] = last.pre._subscriptions[last.this]

C9_Witness ==
  /\ last.op = "remove"
  /\ last.item.t = "Subscription"
  /\ Len(PreList(last.this)) = 3
  /\ PreList(last.this)[1] = last.item.v
  /\ PreList(last.this)[3] = last.item.v
  /\ PreList(last.this)[2] # last.item.v
  /\ _subscriptions[last.this].items =
       <<PreList(last.this)[2], PreList(last.this)[3]>>

\* C10 as stated: add() throws an Error for every number, string and boolean.
C10_EveryPrimitiveThrows ==
  (last.op = "add" /\ last.item.t \in {"number", "string", "boolean"}) =>
    /\ last.thrown = UnrecognizedError
    /\ Unchanged

\* C10 amended: add() throws an Error exactly for the truthy numbers, strings
\* and booleans, and then nothing has changed; for 0, the empty string and
\* false it returns without an error and without a change, as for null.
C10_TruthyPrimitiveThrows ==
  last.op = "add" =>
    /\ (last.thrown = UnrecognizedError) <=>
         (last.item \in {Num(42), Str("abc"), Bool(TRUE)})
    /\ last.item \in {Num(42), Str("abc"), Bool(TRUE), Num(0), Str(""), Bool(FALSE)}
         => (Unchanged /\ last.trace = <<>>)
    /\ last.item \in {Num(0), Str(""), Bool(FALSE)} => last.thrown = NoErr

C10_Witness ==
  /\ last.op = "add"
  /\ last.item = Str("abc")
  /\ last.thrown = UnrecognizedError
  /\ ~isUnsubscribed[last.this]
  /\ _subscriptions[last.this].items # <<>>

\* the heap before step i of the call just made
HeapBefore(i) == IF i = 1 THEN last.pre ELSE last.trace[i - 1].heap
Flipped(n) == ~last.pre.isUnsubscribed[n] /\ isUnsubscribed[n]

\* C11: isUnsubscribed is false for a new object, never goes back from true
\* to false (from step to step of a call and from call to call), becomes true
\* for an object only in an unsubscribe() of that object, is true after
\* unsubscribe(), and add and remove leave the flag of their receiver alone.
C11_FlagMonotonic ==
  /\ last.op = "new" => ~isUnsubscribed[last.this]
  /\ \A n \in Ids : last.op # "none" =>
       /\ last.pre.isUnsubscribed[n] => isUnsubscribed[n]
       /\ \A i \in 1..Len(last.trace) :
            /\ HeapBefore(i).isUnsubscribed[n] => last.trace[i].heap.isUnsubscribed[n]
            /\ last.trace[i].heap.isUnsubscribed[n] => isUnsubscribed[n]
       /\ Flipped(n) =>
            \E i \in 1..Len(last.trace) :
              /\ last.trace[i].ev = "unsubscribe"
              /\ last.trace[i].node = n
              /\ last.trace[i].flag
  /\ last.op \in {"add", "remove"} =>
       isUnsubscribed[last.this] = last.pre.isUnsubscribed[last.this]
  /\ last.op = "unsubscribe" => isUnsubscribed[last.this]

C11_Witness ==
  /\ last.op = "unsubscribe"
  /\ Flipped(last.this)
  /\ \E n \in Ids \ {last.this} : Flipped(n)
  /\ \E n \in Ids \ {EMPTY} : last.pre.isUnsubscribed[n] /\ isUnsubscribed[n]

\* invocations of the callable of object n before the call just made
InvokedBefore(n) == invoked[n] - Invocations(last.trace, n)
\* unsubscribe() calls on object n made from a loop over children
CallsFromParents(n) ==
  {i \in 1..Len(last.trace) : last.trace[i].ev = "child" /\ last.trace[i].arg = n}

\* C12: the callable of an object is invoked at most once over all calls,
\* whoever holds the object and however often, and it has been invoked
\* exactly once whenever an unsubscribe() of the object returns.
C12_TeardownOnce ==
  \A n \in Ids :
    /\ invoked[n] <= 1
    /\ \A i \in 1..Len(last.trace) :
         (last.trace[i].ev = "return" /\ last.trace[i].node = n) =>
           InvokedBefore(n) + Invocations(SubSeq(last.trace, 1, i), n)
             = IF _unsubscribe[n] # NoFn THEN 1 ELSE 0

C12_Witness ==
  /\ last.op = "unsubscribe"
  /\ \E n \in Ids :
       /\ _unsubscribe[n] # NoFn
       /\ invoked[n] = 1
       /\ Cardinality(CallsFromParents(n)) >= 2
       /\ \E p, q \in Ids : p # q /\ PreList(p) = <<n, n>> /\ Occurs(PreList(q), n)

\* EMPTY as the static initialiser leaves it, and in nobody's list
EmptyUntouched(heap) ==
  /\ heap.isUnsubscribed[EMPTY]
  /\ heap._subscriptions[EMPTY] = UndefinedSubs
  /\ \A n \in Ids : ~Occurs(heap._subscriptions[n].items, EMPTY)

\* C13: EMPTY is unsubscribed, has no list and no callable, and is in no
\* object's list: now and at every step of every call, whatever the receiver
\* and the argument of the call.
C13_EmptyUntouched ==
  /\ EmptyUntouched(Snap(Heap))
  /\ _unsubscribe[EMPTY] = NoFn
  /\ invoked[EMPTY] = 0
  /\ \A i \in 1..Len(last.trace) : EmptyUntouched(last.trace[i].heap)

C13_Witness ==
  /\ last.op = "add"
  /\ last.this = EMPTY
  /\ last.item.t = "Subscription"
  /\ Flipped(last.item.v)
  /\ _unsubscribe[last.item.v] # NoFn

\* the receiver of the call just made and object b held each other
Cycle(b) ==
  /\ b # last.this
  /\ Occurs(PreList(last.this), b)
  /\ Occurs(PreList(b), last.this)
\* steps of the call just made at which unsubscribe() of n starts, n active
ActiveEntries(n) ==
  {i \in 1..Len(last.trace) :
     /\ last.trace[i].ev = "unsubscribe"
     /\ last.trace[i].node = n
     /\ last.trace[i].flag}

\* step i starts an unsubscribe() that finds its object unsubscribed and
\* returns without another step
ReturnsAtOnce(i) ==
  /\ last.trace[i].ev = "unsubscribe"
  /\ ~last.trace[i].flag
  /\ last.trace[i].heap.isUnsubscribed[last.trace[i].node]
  /\ i < Len(last.trace)
  /\ last.trace[i + 1].ev = "return"
  /\ last.trace[i + 1].node = last.trace[i].node
  /\ last.trace[i + 1].depth = last.trace[i].depth
  /\ last.trace[i + 1].err = NoErr
  /\ last.trace[i + 1].heap = last.trace[i].heap

\* C14, as stated: unsubscribe() of an object that holds, and is held by,
\* another object never returns.
C14_CycleNeverReturns ==
  ~(UnsubscribedActive /\ \E b \in Ids : Cycle(b))

\* C14, amended: unsubscribe() of an active object A that holds, and is held
\* by, an active object B returns; A and B are then unsubscribed with their
\* lists taken off, each was entered as an active object once, and the call
\* that B's loop makes on A finds A unsubscribed and returns at once.
C14_CycleTerminates ==
  \A b \in Ids :
    (UnsubscribedActive /\ Cycle(b) /\ ~last.pre.isUnsubscribed[b]) =>
      /\ isUnsubscribed[last.this] /\ isUnsubscribed[b]
      /\ NoChildren(Snap(Heap), last.this) /\ NoChildren(Snap(Heap), b)
      /\ Cardinality(ActiveEntries(last.this)) = 1
      /\ Cardinality(ActiveEntries(b)) = 1
      /\ \A i \in 1..Len(last.trace) :
           ReturnsAtOnce(i) \/ i \in ActiveEntries(last.trace[i].node)
                            \/ last.trace[i].ev # "unsubscribe"
                            \/ last.trace[i].node \notin {last.this, b}
      /\ last.trace[Len(last.trace)].ev = "return"
      /\ last.trace[Len(last.trace)].depth = 1

C14_Witness ==
  /\ UnsubscribedActive
  /\ \E b \in Ids :
       /\ Cycle(b) /\ ~last.pre.isUnsubscribed[b]
       /\ \E i \in 2..Len(last.trace) :
            /\ last.trace[i - 1].ev = "child"
            /\ last.trace[i - 1].node = b
            /\ last.trace[i - 1].arg = last.this
            /\ ReturnsAtOnce(i)
  /\ last.thrown = NoErr

\* the step at which the unsubscribe() started at step i returns
IsReturnOf(i, j) ==
  /\ last.trace[j].ev = "return"
  /\ last.trace[j].node = last.trace[i].node
  /\ last.trace[j].depth = last.trace[i].depth
FrameEnd(i) ==
  CHOOSE j \in (i + 1)..Len(last.trace) :
    IsReturnOf(i, j) /\ \A k \in (i + 1)..(j - 1) : ~IsReturnOf(i, k)
\* the steps of kind ev, between steps i and end, of the unsubscribe()
\* started at step i itself
InFrame(i, end, ev) ==
  {j \in (i + 1)..(end - 1) :
     /\ last.trace[j].ev = ev
     /\ last.trace[j].node = last.trace[i].node
     /\ last.trace[j].depth = last.trace[i].depth}
\* the step after the call of step j in the loop: the next call of the loop
\* (loop holds the steps of the loop's loop), or the return of the frame
NextInLoop(loop, end, j) ==
  IF \E c \in loop : c > j
    THEN CHOOSE c \in loop : c > j /\ \A d \in loop : d > j => c <= d
    ELSE end
DepthFirst(i) ==
  LET e == last.trace[i]
      list == e.heap._subscriptions[e.node].items
      end == FrameEnd(i)
      loop == InFrame(i, end, "child")
      own == InFrame(i, end, "teardown") \cup InFrame(i, end, "teardownReturn")
  IN /\ Cardinality(loop) = Len(list)
     /\ \A t \in own : \A j \in loop : t < j
     /\ \A j \in loop :
          LET k == Cardinality({c \in loop : c <= j})
              nxt == NextInLoop(loop, end, j)
              grandchildren == last.trace[j].heap._subscriptions[list[k]].items
          IN /\ last.trace[j].arg = list[k]
             /\ last.trace[j + 1].ev = "unsubscribe"
             /\ last.trace[j + 1].node = list[k]
             /\ \A t \in (j + 1)..(nxt - 1) : last.trace[t].depth > e.depth
             /\ last.trace[nxt - 1].ev = "return"
             /\ last.trace[nxt - 1].node = list[k]
             /\ last.trace[nxt - 1].depth = e.depth + 1
             /\ last.trace[nxt].heap.isUnsubscribed[list[k]]
             /\ \A x \in 1..Len(grandchildren) :
                  last.trace[nxt].heap.isUnsubscribed[grandchildren[x]]

\* C15: in every unsubscribe() of an active object, the outermost one and
\* the nested ones, the object's own callable has returned before the loop
\* calls the first child, the loop calls the children in list order, and the
\* call on a child, with all it unsubscribes in turn, has returned before the
\* loop calls the next child.
C15_DepthFirstOrder ==
  \A n \in Ids : \A i \in ActiveEntries(n) : DepthFirst(i)

C15_Witness ==
  /\ UnsubscribedActive
  /\ _unsubscribe[last.this] # NoFn
  /\ Len(PreList(last.this)) = 2
  /\ LET c == PreList(last.this)[1]
     IN /\ ~last.pre.isUnsubscribed[c]
        /\ Len(PreList(c)) = 1
        /\ PreList(c)[1] \notin {c, last.this}
        /\ ~last.pre.isUnsubscribed[PreList(c)[1]]
        /\ _unsubscribe[PreList(c)[1]] # NoFn
        /\ \E t, j \in 1..Len(last.trace) :
             /\ t < j
             /\ last.trace[t].ev = "teardown"
             /\ last.trace[t].node = PreList(c)[1]
             /\ last.trace[t].depth = 3
             /\ last.trace[j].ev = "child"
             /\ last.trace[j].depth = 1
             /\ last.trace[j].arg = PreList(last.this)[2]

\* the unsubscribe() calls in progress at step i on the object of step i:
\* the steps at which they started
InProgress(i) ==
  {j \in ActiveEntries(last.trace[i].node) : j < i /\ i < FrameEnd(j)}
\* the unsubscribe() started at step j calls every child of the list it took
\* off, and at its return each is unsubscribed, having been entered as an
\* active object, and its callable invoked, at most once in the whole call
CompletesLoop(j) ==
  LET list == last.trace[j].heap._subscriptions[last.trace[j].node].items
      end == FrameEnd(j)
  IN /\ Cardinality(InFrame(j, end, "child")) = Len(list)
     /\ \A x \in 1..Len(list) :
          /\ last.trace[end].heap.isUnsubscribed[list[x]]
          /\ Cardinality(ActiveEntries(list[x])) <= 1
          /\ Invocations(last.trace, list[x]) <= 1

\* C16: an unsubscribe() of an object made while an unsubscribe() of that
\* object is in progress (from the object's own callable or from a callable
\* below it) finds the flag set and the list taken off, changes nothing,
\* invokes nothing and returns without an error; the call in progress still
\* calls every child of the list it took off, once.
C16_ReentrantNoOp ==
  \A i \in 1..Len(last.trace) :
    (last.trace[i].ev = "unsubscribe" /\ InProgress(i) # {}) =>
      /\ ReturnsAtOnce(i)
      /\ last.trace[i].heap._subscriptions[last.trace[i].node].items = <<>>
      /\ \A j \in InProgress(i) : CompletesLoop(j)

C16_Witness ==
  /\ UnsubscribedActive
  /\ PreList(last.this) # <<>>
  /\ _unsubscribe[PreList(last.this)[1]] # NoFn
  /\ \E i \in 1..Len(last.trace) :
       /\ last.trace[i].ev = "unsubscribe"
       /\ last.trace[i].node = last.this
       /\ last.trace[i].depth = 3
       /\ InProgress(i) = {1}
  /\ last.thrown = NoErr

\* step t starts a callable that calls op on object n, between steps j and end
CallsBack(j, end, t, op, n) ==
  /\ j < t /\ t < end
  /\ last.trace[t].ev = "teardown"
  /\ FnTable[last.trace[t].arg].kind = op
  /\ FnTable[last.trace[t].arg].a = n
\* the step at which the callable started at step t returns
TeardownEnd(t) ==
  CHOOSE u \in (t + 1)..Len(last.trace) :
    /\ last.trace[u].ev = "teardownReturn"
    /\ last.trace[u].node = last.trace[t].node
    /\ last.trace[u].depth = last.trace[t].depth
\* the unsubscribe() of n started at step j: every child of the list it took
\* off is unsubscribed when it returns; a remove on n made by a callable
\* during the call changes nothing; an add on n made by a callable during
\* the call leaves its argument unsubscribed and n without a list
KeepsDetachedList(j) ==
  LET n == last.trace[j].node
      list == last.trace[j].heap._subscriptions[n].items
      end == FrameEnd(j)
  IN /\ \A x \in 1..Len(list) : last.trace[end].heap.isUnsubscribed[list[x]]
     /\ \A t \in 1..Len(last.trace) :
          /\ CallsBack(j, end, t, "remove", n) =>
               /\ last.trace[t + 1].ev = "teardownReturn"
               /\ last.trace[t + 1].heap = last.trace[t].heap
          /\ CallsBack(j, end, t, "add", n) =>
               LET u == TeardownEnd(t)
               IN /\ last.trace[u].heap.isUnsubscribed[FnTable[last.trace[t].arg].b]
                  /\ last.trace[u].heap._subscriptions[n].items = <<>>

\* C17: every child in the list of an active object when its unsubscribe()
\* starts is unsubscribed when the call returns, also when a callable calls
\* remove(child) or add(..) on the object during the call: the remove takes
\* nothing out of the list being looped over, the add unsubscribes its
\* argument at once.
C17_DetachedListSurvives ==
  /\ UnsubscribedActive =>
       \A x \in 1..Len(PreList(last.this)) : isUnsubscribed[PreList(last.this)[x]]
  /\ \A n \in Ids : \A j \in ActiveEntries(n) : KeepsDetachedList(j)

C17_Witness ==
  /\ UnsubscribedActive
  /\ \E t \in 1..Len(last.trace) :
       /\ CallsBack(1, Len(last.trace), t, "remove", last.this)
       /\ Occurs(PreList(last.this), FnTable[last.trace[t].arg].b)
       /\ ~last.trace[t].heap.isUnsubscribed[FnTable[last.trace[t].arg].b]
       /\ isUnsubscribed[FnTable[last.trace[t].arg].b]
       /\ Cardinality(ActiveEntries(FnTable[last.trace[t].arg].b)) = 1

\* the heap after step i of the call just made, the heap now after the last
HeapAfter(i) == IF i > Len(last.trace) THEN Snap(Heap) ELSE last.trace[i].heap
\* from heap h to heap g a list grew only by one object that was active in h
GrewByActive(h, g) ==
  \A n \in Ids :
    Len(g._subscriptions[n].items) > Len(h._subscriptions[n].items) =>
      \E x \in Ids :
        /\ g._subscriptions[n].items = Append(h._subscriptions[n].items, x)
        /\ ~h.isUnsubscribed[x]

\* C18: add(x) on an active object with x an unsubscribed object changes
\* nothing, invokes nothing and does not throw; and whenever a list grows, in
\* a call of the client or of a callable, it grows by an object that is
\* active at that moment.
C18_UnsubscribedNotStored ==
  /\ (/\ last.op = "add"
      /\ ~last.pre.isUnsubscribed[last.this]
      /\ last.item.t = "Subscription"
      /\ last.pre.isUnsubscribed[last.item.v]) =>
       /\ Unchanged
       /\ last.trace = <<>>
       /\ last.thrown = NoErr
       /\ invoked[last.item.v] = InvokedBefore(last.item.v)
  /\ last.op # "none" =>
       \A i \in 1..(Len(last.trace) + 1) : GrewByActive(HeapBefore(i), HeapAfter(i))

C18_Witness ==
  /\ last.op = "add"
  /\ ~last.pre.isUnsubscribed[last.this]
  /\ last.item.t = "Subscription"
  /\ last.item.v # EMPTY
  /\ last.pre.isUnsubscribed[last.item.v]
  /\ _unsubscribe[last.item.v] # NoFn
  /\ invoked[last.item.v] = 1

\* C19: when add() on an unsubscribed receiver unsubscribes its argument and
\* a callable fails in that, add throws the UnsubscriptionError that the
\* argument's unsubscribe() threw; the argument is unsubscribed all the same
\* and is not in the receiver's list.
C19_AddThrowsFailure ==
  AddToUnsubscribed =>
    LET end == last.trace[Len(last.trace)]
    IN /\ end.ev = "return" /\ end.node = AddedObject /\ end.depth = 1
       /\ last.thrown = end.err
       /\ (SelectSeq(last.trace, IsFailedTeardown) # <<>>) =>
            /\ last.thrown.type = "UnsubscriptionError"
            /\ last.thrown.errors # <<>>
            /\ isUnsubscribed[AddedObject]
            /\ ~Occurs(_subscriptions[last.this].items, AddedObject)
            /\ _subscriptions[last.this] = last.pre._subscriptions[last.this]

C19_Witness ==
  /\ AddToUnsubscribed
  /\ last.this # EMPTY
  /\ last.thrown.type = "UnsubscriptionError"
  /\ last.thrown.errors = <<Thrown(_unsubscribe[AddedObject], AddedObject)>>
  /\ isUnsubscribed[AddedObject]

(***************************************************************************)
(* Properties of fromArray.                                                *)
(***************************************************************************)
IsNext(m) == m.kind = "next"
Nexts == SelectSeq(received, IsNext)

\* C20: the observer is sent the elements of the array from the first on, in
\* index order; after a next() that leaves the observer disposed, or with an
\* observer disposed from the start, no further element is sent; the
\* completion is sent once, as the last thing, and it is sent when the loop
\* has stopped: at the end of the array or at a disposed observer.
C20_PrefixThenReturn ==
  /\ Len(Nexts) <= Len(array.items)
  /\ \A k \in 1..Len(Nexts) : Nexts[k].value = array.items[k]
  /\ \A k \in 1..(Len(Nexts) - 1) : ~Nexts[k].disposed
  /\ (disposed /\ Nexts # <<>>) => Nexts[Len(Nexts)].disposed
  /\ \A k \in 1..Len(received) :
       received[k].kind = "return" => k = Len(received)
  /\ pc = "done" <=>
       (received # <<>> /\ received[Len(received)].kind = "return")
  /\ pc = "done" =>
       /\ Len(received) = Len(Nexts) + 1
       /\ disposed \/ Len(Nexts) = Len(array.items)

C20_Witness ==
  /\ pc = "done"
  /\ disposed
  /\ Len(array.items) = 3
  /\ array.items[1] # array.items[2]
  /\ Len(Nexts) = 2
  /\ ~Nexts[1].disposed
  /\ Len(received) = 3

====
